---- MODULE Spec2Model ----
(***************************************************************************)
(* Model of the C interface layer of PRIMA (src/c/prima.c): option and     *)
(* problem initialisation, problem validation, result creation and         *)
(* release, and the dispatch of prima_minimize to the five solvers.        *)
(***************************************************************************)
EXTENDS Integers, Sequences, FiniteSets, TLC

VARIABLES
    pc,          \* position of the calling program
    algorithm,   \* algorithm argument of the call in progress / last call
    use_constr,  \* use_constr argument of the last prima_check_problem call
    problem,     \* the caller's prima_problem_t
    options,     \* the caller's prima_options_t
    args,        \* the problem, options and result pointers passed to the last call
    result,      \* the caller's prima_result_t
    mem,         \* contents of the double[] buffers, by pointer
    heap,        \* malloc/free bookkeeping
    rc,          \* return value of the last library call
    chk,         \* what prima_check_problem returned inside prima_minimize
    eng          \* the solver engine running inside prima_minimize

vars == <<pc, algorithm, use_constr, problem, options, args, result, mem, heap, rc, chk, eng>>

---------------------------------------------------------------------------
(* Bounds of the model *)

MaxN == 2        \* dimensions 1..MaxN are explored with full buffers
MaxM == 1        \* constraint counts 0..MaxM
MaxAllocs == 2   \* blocks the allocator can hand out
MaxEvals == 2    \* evaluations an engine run may perform

---------------------------------------------------------------------------
(* C scalars *)

IntMax == 2147483647
IntMin == -IntMax - 1

\* int + int. Signed overflow is undefined in C; the value taken here is the
\* wrapped sum that the add and imul instructions of a two's complement build leave.
AddWrap(x, y) ==
    IF x > 0 /\ y > 0 /\ x > IntMax - y THEN (x + IntMin) + (y + IntMin)
    ELSE IF x < 0 /\ y < 0 /\ x < IntMin - y THEN (x - IntMin) + (y - IntMin)
    ELSE x + y

\* a * b for a constant a >= 0, in int arithmetic
RECURSIVE MulWrap(_, _)
MulWrap(a, b) ==
    IF a = 0 THEN 0
    ELSE LET h == MulWrap(a \div 2, b)
             d == AddWrap(h, h)
         IN  IF a % 2 = 1 THEN AddWrap(d, b) ELSE d

MAXFUN_DIM_DFT == 500

---------------------------------------------------------------------------
(* Pointers *)

NULL == [kind |-> "null", id |-> 0]
WILD == [kind |-> "wild", id |-> 0]        \* an indeterminate, never-assigned pointer value
Caller(k) == [kind |-> "caller", id |-> k] \* storage owned by the calling program
Heap(k) == [kind |-> "heap", id |-> k]     \* the k-th block handed out by malloc/calloc

ProblemPtr == Caller(1)
OptionsPtr == Caller(2)
ResultPtr == Caller(3)
X0Buf == Caller(4)
XlBuf == Caller(5)
XuBuf == Caller(6)
AineqBuf == Caller(7)
BineqBuf == Caller(8)
AeqBuf == Caller(9)
BeqBuf == Caller(10)
Nlconstr0Buf == Caller(11)
fun == Caller(12)          \* an objective function of the caller
confun == Caller(13)       \* an objective-and-constraint function of the caller
callback == Caller(14)     \* a monitor of the caller
UserData == Caller(15)

---------------------------------------------------------------------------
(* prima_algorithm_t and prima_rc_t *)

Algorithms == {"PRIMA_UOBYQA", "PRIMA_NEWUOA", "PRIMA_BOBYQA", "PRIMA_LINCOA", "PRIMA_COBYLA"}
NotAnAlgorithm == "PRIMA_NOT_AN_ALGORITHM"   \* an int value outside the enumeration
AlgorithmArgs == Algorithms \cup {NotAnAlgorithm}

NoRc == "NONE"   \* no call has returned yet

prima_get_rc_string(code) ==
    CASE code = "PRIMA_SMALL_TR_RADIUS" -> "Trust region radius reaches its lower bound"
      [] code = "PRIMA_FTARGET_ACHIEVED" -> "The target function value is reached"
      [] code = "PRIMA_TRSUBP_FAILED" -> "A trust region step failed to reduce the model"
      [] code = "PRIMA_MAXFUN_REACHED" -> "Maximum number of function evaluations reached"
      [] code = "PRIMA_MAXTR_REACHED" -> "Maximum number of trust region iterations reached"
      [] code = "PRIMA_NAN_INF_X" -> "The input X contains NaN of Inf"
      [] code = "PRIMA_NAN_INF_F" -> "The objective or constraint functions return NaN or +Inf"
      [] code = "PRIMA_NAN_INF_MODEL" -> "NaN or Inf occurs in the model"
      [] code = "PRIMA_NO_SPACE_BETWEEN_BOUNDS" -> "No space between bounds"
      [] code = "PRIMA_DAMAGING_ROUNDING" -> "Rounding errors are becoming damaging"
      [] code = "PRIMA_ZERO_LINEAR_CONSTRAINT" -> "One of the linear constraints has a zero gradient"
      [] code = "PRIMA_CALLBACK_TERMINATE" -> "Callback function requested termination of optimization"
      [] code = "PRIMA_INVALID_INPUT" -> "Invalid input"
      [] code = "PRIMA_ASSERTION_FAILS" -> "Assertion fails"
      [] code = "PRIMA_VALIDATION_FAILS" -> "Validation fails"
      [] code = "PRIMA_MEMORY_ALLOCATION_FAILS" -> "Memory allocation fails"
      [] code = "PRIMA_NULL_OPTIONS" -> "NULL options"
      [] code = "PRIMA_NULL_PROBLEM" -> "NULL problem"
      [] code = "PRIMA_NULL_X0" -> "NULL x0"
      [] code = "PRIMA_NULL_RESULT" -> "NULL result"
      [] code = "PRIMA_NULL_FUNCTION" -> "NULL function"
      [] code = "PRIMA_PROBLEM_SOLVER_MISMATCH_NONLINEAR_CONSTRAINTS" ->
            "Nonlinear constraints were provided for an algorithm that cannot handle them"
      [] code = "PRIMA_PROBLEM_SOLVER_MISMATCH_LINEAR_CONSTRAINTS" ->
            "Linear constraints were provided for an algorithm that cannot handle them"
      [] code = "PRIMA_PROBLEM_SOLVER_MISMATCH_BOUNDS" ->
            "Bounds were provided for an algorithm that cannot handle them"
      [] OTHER -> "Invalid return code"

---------------------------------------------------------------------------
(* prima_options_t and prima_problem_t *)

\* what prima_init_options stores through a non-null pointer
InitialOptions ==
    [maxfun |-> 0, rhobeg |-> "NaN", rhoend |-> "NaN", iprint |-> "PRIMA_MSG_NONE",
     ftarget |-> "-Inf", npt |-> 0, data |-> NULL, callback |-> NULL]

prima_init_options(opts) ==
    IF opts # NULL
    THEN [rc |-> "0", options |-> InitialOptions]
    ELSE [rc |-> "PRIMA_NULL_OPTIONS", options |-> options]

\* what prima_init_problem stores through a non-null pointer
InitialProblem(n) ==
    [n |-> n, x0 |-> NULL, calfun |-> NULL, calcfc |-> NULL, f0 |-> "NaN", nlconstr0 |-> NULL,
     m_nlcon |-> 0, m_ineq |-> 0, m_eq |-> 0, Aineq |-> NULL, bineq |-> NULL,
     Aeq |-> NULL, beq |-> NULL, xl |-> NULL, xu |-> NULL]

prima_init_problem(prob, n) ==
    IF prob # NULL
    THEN [rc |-> "0", problem |-> InitialProblem(n)]
    ELSE [rc |-> "PRIMA_NULL_PROBLEM", problem |-> problem]

\* CapabilityMismatch with BOBYQA left out of the algorithms that take bounds
CapabilityMismatch_BobyqaNoBounds(alg) ==
    IF alg # "PRIMA_COBYLA"
       /\ (problem.calcfc # NULL \/ problem.nlconstr0 # NULL \/ problem.m_nlcon > 0)
    THEN "PRIMA_PROBLEM_SOLVER_MISMATCH_NONLINEAR_CONSTRAINTS"
    ELSE IF (alg # "PRIMA_COBYLA" /\ alg # "PRIMA_LINCOA")
            /\ (problem.m_ineq > 0 \/ problem.m_eq > 0 \/ problem.Aineq # NULL
                \/ problem.bineq # NULL \/ problem.Aeq # NULL \/ problem.beq # NULL)
    THEN "PRIMA_PROBLEM_SOLVER_MISMATCH_LINEAR_CONSTRAINTS"
    ELSE IF (alg # "PRIMA_COBYLA" /\ alg # "PRIMA_LINCOA")
            /\ (problem.xl # NULL \/ problem.xu # NULL)
    THEN "PRIMA_PROBLEM_SOLVER_MISMATCH_BOUNDS"
    ELSE "0"

\* CapabilityMismatch with the linear test moved in front of the nonlinear one
CapabilityMismatch_LinearFirst(alg) ==
    IF (alg # "PRIMA_COBYLA" /\ alg # "PRIMA_LINCOA")
       /\ (problem.m_ineq > 0 \/ problem.m_eq > 0 \/ problem.Aineq # NULL
           \/ problem.bineq # NULL \/ problem.Aeq # NULL \/ problem.beq # NULL)
    THEN "PRIMA_PROBLEM_SOLVER_MISMATCH_LINEAR_CONSTRAINTS"
    ELSE IF alg # "PRIMA_COBYLA"
            /\ (problem.calcfc # NULL \/ problem.nlconstr0 # NULL \/ problem.m_nlcon > 0)
    THEN "PRIMA_PROBLEM_SOLVER_MISMATCH_NONLINEAR_CONSTRAINTS"
    ELSE IF (alg # "PRIMA_COBYLA" /\ alg # "PRIMA_LINCOA" /\ alg # "PRIMA_BOBYQA")
            /\ (problem.xl # NULL \/ problem.xu # NULL)
    THEN "PRIMA_PROBLEM_SOLVER_MISMATCH_BOUNDS"
    ELSE "0"

\* the first three tests of prima_check_problem: the mismatch between what the
\* problem supplies and what the algorithm handles, "0" when there is none
CapabilityMismatch(alg) ==
    IF alg # "PRIMA_COBYLA"
       /\ (problem.calcfc # NULL \/ problem.nlconstr0 # NULL \/ problem.m_nlcon > 0)
    THEN "PRIMA_PROBLEM_SOLVER_MISMATCH_NONLINEAR_CONSTRAINTS"
    ELSE IF (alg # "PRIMA_COBYLA" /\ alg # "PRIMA_LINCOA")
            /\ (problem.m_ineq > 0 \/ problem.m_eq > 0 \/ problem.Aineq # NULL
                \/ problem.bineq # NULL \/ problem.Aeq # NULL \/ problem.beq # NULL)
    THEN "PRIMA_PROBLEM_SOLVER_MISMATCH_LINEAR_CONSTRAINTS"
    ELSE IF (alg # "PRIMA_COBYLA" /\ alg # "PRIMA_LINCOA" /\ alg # "PRIMA_BOBYQA")
            /\ (problem.xl # NULL \/ problem.xu # NULL)
    THEN "PRIMA_PROBLEM_SOLVER_MISMATCH_BOUNDS"
    ELSE "0"

\* ApplyDefaults storing the default maxfun whatever the caller had set
ApplyDefaults_AlwaysMaxfun(o, n) ==
    LET o1 == [o EXCEPT !.maxfun = MulWrap(MAXFUN_DIM_DFT, n)]
    IN  IF o1.npt = 0 THEN [o1 EXCEPT !.npt = AddWrap(MulWrap(2, n), 1)] ELSE o1

\* the last two statements of prima_check_problem before it returns 0
ApplyDefaults(o, n) ==
    LET o1 == IF o.maxfun = 0 THEN [o EXCEPT !.maxfun = MulWrap(MAXFUN_DIM_DFT, n)] ELSE o
    IN  IF o1.npt = 0 THEN [o1 EXCEPT !.npt = AddWrap(MulWrap(2, n), 1)] ELSE o1

\* prima_check_problem: the status it returns and the options it leaves
prima_check_problem(prob, opts, constr, alg) ==
    LET keep(code) == [rc |-> code, options |-> options] IN
    IF prob = NULL THEN keep("PRIMA_NULL_PROBLEM")
    ELSE IF CapabilityMismatch(alg) # "0" THEN keep(CapabilityMismatch(alg))
    ELSE IF opts = NULL THEN keep("PRIMA_NULL_OPTIONS")
    ELSE IF problem.x0 = NULL THEN keep("PRIMA_NULL_X0")
    ELSE IF (constr /\ problem.calcfc = NULL) \/ (~constr /\ problem.calfun = NULL)
    THEN keep("PRIMA_NULL_FUNCTION")
    ELSE [rc |-> "0", options |-> ApplyDefaults(options, problem.n)]

---------------------------------------------------------------------------
(* prima_result_t, the buffers and the allocator *)

\* memset(result, 0, sizeof(prima_result_t))
ZeroResult ==
    [x |-> NULL, f |-> "0.0", cstrv |-> "0.0", nlconstr |-> NULL, nf |-> 0,
     status |-> "0", message |-> "NULL", _m_nlcon |-> 0]

\* a prima_result_t declared and never written: every field is indeterminate
UninitializedResults ==
    { [x |-> px, f |-> "indeterminate", cstrv |-> "indeterminate", nlconstr |-> pn, nf |-> k,
       status |-> "indeterminate", message |-> "indeterminate", _m_nlcon |-> k] :
        px \in {NULL, WILD}, pn \in {NULL, WILD}, k \in {MaxM + 1} }

Blocks == 1..MaxAllocs
Buffers == {X0Buf} \cup {Heap(k) : k \in Blocks}

EmptyHeap == [n |-> 0, state |-> [k \in Blocks |-> "unused"], invalid |-> FALSE]

\* malloc/calloc returning block heap.n + 1
Allocated(h) == [h EXCEPT !.n = h.n + 1, !.state[h.n + 1] = "live"]

\* free(p) of a non-null p: a live block is released; anything else is an invalid free
Freed(h, p) ==
    IF p.kind = "heap" /\ h.state[p.id] = "live"
    THEN [h EXCEPT !.state[p.id] = "freed"]
    ELSE IF p.kind = "heap"
    THEN [h EXCEPT !.state[p.id] = "freed twice", !.invalid = TRUE]
    ELSE [h EXCEPT !.invalid = TRUE]

Zeros(len) == [i \in 1..len |-> 0]

\* Memcpy that leaves the last element of dst uncopied
Memcpy_Short(m, dst, src, len) ==
    [m EXCEPT ![dst] = [i \in 1..len |-> IF i < len THEN m[src][i] ELSE 0]]

\* memcpy(dst, src, len * sizeof(double)) on the buffers m
Memcpy(m, dst, src, len) == [m EXCEPT ![dst] = [i \in 1..len |-> m[src][i]]]

\* prima_init_result; mallocOk and callocOk say whether the allocator has memory left
prima_init_result(res, prob, mallocOk, callocOk) ==
    LET out(code, r, m, h) == [rc |-> code, result |-> r, mem |-> m, heap |-> h] IN
    IF res = NULL THEN out("PRIMA_NULL_RESULT", result, mem, heap)
    ELSE IF prob = NULL THEN out("PRIMA_NULL_PROBLEM", ZeroResult, mem, heap)
    ELSE IF problem.x0 = NULL THEN out("PRIMA_NULL_X0", ZeroResult, mem, heap)
    ELSE IF ~mallocOk THEN out("PRIMA_MEMORY_ALLOCATION_FAILS", ZeroResult, mem, heap)
    ELSE LET px == Heap(heap.n + 1)
             h1 == Allocated(heap)
             r1 == [ZeroResult EXCEPT !.x = px]
             \* memcpy(result->x, problem->x0, n * sizeof(double))
             m1 == Memcpy(mem, px, problem.x0, problem.n)
         IN  IF problem.m_nlcon > 0
             THEN IF ~callocOk THEN out("PRIMA_MEMORY_ALLOCATION_FAILS", r1, m1, h1)
                  ELSE LET pn == Heap(h1.n + 1)
                       IN  out("0", [r1 EXCEPT !.nlconstr = pn],
                               [m1 EXCEPT ![pn] = Zeros(problem.m_nlcon)], Allocated(h1))
             ELSE out("0", r1, m1, h1)

\* prima_free_result without the store of NULL to result->x
prima_free_result_KeepX(res) ==
    IF res = NULL THEN [rc |-> "PRIMA_NULL_RESULT", result |-> result, mem |-> mem, heap |-> heap]
    ELSE LET r1 == IF result.nlconstr # NULL
                   THEN [result EXCEPT !.nlconstr = NULL, !._m_nlcon = 0]
                   ELSE result
             h1 == IF result.nlconstr # NULL THEN Freed(heap, result.nlconstr) ELSE heap
             h2 == IF result.x # NULL THEN Freed(h1, result.x) ELSE h1
             gone == {p \in {result.nlconstr, result.x} : p.kind = "heap"}
         IN  [rc |-> "0", result |-> r1,
              mem |-> [b \in Buffers |-> IF b \in gone THEN << >> ELSE mem[b]],
              heap |-> h2]

\* prima_free_result
prima_free_result(res) ==
    IF res = NULL THEN [rc |-> "PRIMA_NULL_RESULT", result |-> result, mem |-> mem, heap |-> heap]
    ELSE LET r1 == IF result.nlconstr # NULL
                   THEN [result EXCEPT !.nlconstr = NULL, !._m_nlcon = 0]
                   ELSE result
             h1 == IF result.nlconstr # NULL THEN Freed(heap, result.nlconstr) ELSE heap
             r2 == IF result.x # NULL THEN [r1 EXCEPT !.x = NULL] ELSE r1
             h2 == IF result.x # NULL THEN Freed(h1, result.x) ELSE h1
             gone == {p \in {result.nlconstr, result.x} : p.kind = "heap"}
         IN  [rc |-> "0", result |-> r2,
              mem |-> [b \in Buffers |-> IF b \in gone THEN << >> ELSE mem[b]],
              heap |-> h2]

---------------------------------------------------------------------------
(* prima_minimize: the dispatch to the Fortran solvers *)

\* an argument list with nothing passed
NoCall ==
    [name |-> "none", fn |-> NULL, data |-> NULL, n |-> 0, x |-> NULL, nlconstr |-> NULL,
     m_nlcon |-> 0, m_ineq |-> 0, Aineq |-> NULL, bineq |-> NULL, m_eq |-> 0, Aeq |-> NULL,
     beq |-> NULL, xl |-> NULL, xu |-> NULL, nlconstr0 |-> NULL, cstrv |-> FALSE,
     maxfun |-> 0, npt |-> 0, callback |-> NULL]

\* CommonCall handing the solver the caller's x0 instead of result->x
CommonCall_X0(solver, r, o) ==
    [NoCall EXCEPT !.name = solver, !.data = o.data, !.n = problem.n, !.x = problem.x0,
                   !.maxfun = o.maxfun, !.callback = o.callback]

\* what every solver is handed, with r the result as prima_init_result left it
\* and o the validated options
CommonCall(solver, r, o) ==
    [NoCall EXCEPT !.name = solver, !.data = o.data, !.n = problem.n, !.x = r.x,
                   !.maxfun = o.maxfun, !.callback = o.callback]

\* the case of the switch of prima_minimize for an algorithm of the enumeration
SolverCall(alg, r, o) ==
    CASE alg = "PRIMA_BOBYQA" ->
           [CommonCall("bobyqa_c", r, o) EXCEPT !.fn = problem.calfun, !.xl = problem.xl,
                                                !.xu = problem.xu, !.npt = o.npt]
      [] alg = "PRIMA_COBYLA" ->
           [CommonCall("cobyla_c", r, o) EXCEPT !.fn = problem.calcfc,
               !.m_nlcon = problem.m_nlcon, !.nlconstr = r.nlconstr, !.cstrv = TRUE,
               !.m_ineq = problem.m_ineq, !.Aineq = problem.Aineq, !.bineq = problem.bineq,
               !.m_eq = problem.m_eq, !.Aeq = problem.Aeq, !.beq = problem.beq,
               !.xl = problem.xl, !.xu = problem.xu, !.nlconstr0 = problem.nlconstr0]
      [] alg = "PRIMA_LINCOA" ->
           [CommonCall("lincoa_c", r, o) EXCEPT !.fn = problem.calfun, !.cstrv = TRUE,
               !.m_ineq = problem.m_ineq, !.Aineq = problem.Aineq, !.bineq = problem.bineq,
               !.m_eq = problem.m_eq, !.Aeq = problem.Aeq, !.beq = problem.beq,
               !.xl = problem.xl, !.xu = problem.xu, !.npt = o.npt]
      [] alg = "PRIMA_NEWUOA" ->
           [CommonCall("newuoa_c", r, o) EXCEPT !.fn = problem.calfun, !.npt = o.npt]
      [] alg = "PRIMA_UOBYQA" ->
           [CommonCall("uobyqa_c", r, o) EXCEPT !.fn = problem.calfun]

\* Dispatch with the break after the BOBYQA case missing
Dispatch_Fallthrough(alg, r, o) ==
    IF alg = "PRIMA_BOBYQA" THEN << SolverCall(alg, r, o), SolverCall("PRIMA_COBYLA", r, o) >>
    ELSE IF alg \in Algorithms THEN << SolverCall(alg, r, o) >>
    ELSE << >>

\* Dispatch with the default label put on the UOBYQA case
Dispatch_NoDefault(alg, r, o) ==
    IF alg \in Algorithms THEN << SolverCall(alg, r, o) >>
    ELSE << SolverCall("PRIMA_UOBYQA", r, o) >>

\* the switch of prima_minimize: the solver calls it makes, in order; none at the
\* default label
Dispatch(alg, r, o) ==
    IF alg \in Algorithms THEN << SolverCall(alg, r, o) >> ELSE << >>

\* MinimizeReturn without the store to result->status
MinimizeReturn_NoStatus(info, r) ==
    [rc |-> info, result |-> [r EXCEPT !.message = prima_get_rc_string(info)]]

\* the end of prima_minimize once the solver has stored info
MinimizeReturn(info, r) ==
    [rc |-> info,
     result |-> [r EXCEPT !.status = info, !.message = prima_get_rc_string(info)]]

NoEngine ==
    [todo |-> << >>, cur |-> 0, phase |-> "none", nf |-> 0, terminate |-> FALSE,
     evals |-> 0, reports |-> 0, stopped |-> 0]

\* the statuses a solver run ends with when no termination was requested
SolverOutcomes ==
    {"PRIMA_SMALL_TR_RADIUS", "PRIMA_MAXFUN_REACHED"}

---------------------------------------------------------------------------
(* The calling program: what it may hand to the library *)

NoArgs == [problem |-> NULL, options |-> NULL, result |-> NULL]
NoCheck == [check |-> NoRc, create |-> NoRc]

\* every way of filling the feature fields of a problem of dimension n
AllProblems(n) ==
    { [InitialProblem(n) EXCEPT
         !.x0 = px0, !.calfun = pf, !.calcfc = pc_, !.nlconstr0 = pn0, !.m_nlcon = mn,
         !.m_ineq = mi, !.m_eq = me, !.Aineq = pai, !.bineq = pbi, !.Aeq = pae, !.beq = pbe,
         !.xl = pxl, !.xu = pxu] :
        px0 \in {NULL, X0Buf}, pf \in {NULL, fun}, pc_ \in {NULL, confun},
        pn0 \in {NULL, Nlconstr0Buf}, mn \in {0, MaxM}, mi \in {0, MaxM}, me \in {0, MaxM},
        pai \in {NULL, AineqBuf}, pbi \in {NULL, BineqBuf}, pae \in {NULL, AeqBuf},
        pbe \in {NULL, BeqBuf}, pxl \in {NULL, XlBuf}, pxu \in {NULL, XuBuf} }

\* problems whose optional parts are filled in whole or not at all
PlainProblems(n) ==
    { [InitialProblem(n) EXCEPT
         !.x0 = px0, !.calfun = pf, !.calcfc = pc_, !.m_nlcon = mn,
         !.m_ineq = mi, !.Aineq = IF mi > 0 THEN AineqBuf ELSE NULL,
         !.bineq = IF mi > 0 THEN BineqBuf ELSE NULL,
         !.xl = IF bd THEN XlBuf ELSE NULL, !.xu = IF bd THEN XuBuf ELSE NULL] :
        px0 \in {NULL, X0Buf}, pf \in {NULL, fun}, pc_ \in {NULL, confun},
        mn \in {0, MaxM}, mi \in {0, MaxM}, bd \in BOOLEAN }

\* the largest dimensions whose default maxfun and npt fit an int
NMaxfun == IntMax \div MAXFUN_DIM_DFT
NNpt == (IntMax - 1) \div 2
Dims == (1..MaxN) \cup {NMaxfun, NMaxfun + 1, NNpt, NNpt + 1}

\* values a caller assigns to options.maxfun and options.npt by hand
CallerMaxfun == 200 * MaxN
CallerNpt == MaxN + 2

\* the contents of buffers are left out where only validation is explored
NoMem == [b \in Buffers |-> << >>]

\* an options struct declared and never initialised
UninitializedOptions ==
    [maxfun |-> MaxM + 1, rhobeg |-> "indeterminate", rhoend |-> "indeterminate",
     iprint |-> "indeterminate", ftarget |-> "indeterminate", npt |-> MaxM + 1,
     data |-> WILD, callback |-> WILD]

---------------------------------------------------------------------------
(* Calls that only validate *)

\* the caller runs prima_init_options(&options)
InitOptions ==
    /\ pc = "start"
    /\ LET r == prima_init_options(OptionsPtr)
       IN  /\ options' = r.options
           /\ rc' = r.rc
    /\ pc' = "inited"
    /\ UNCHANGED <<algorithm, use_constr, problem, args, result, mem, heap, chk, eng>>

\* the caller overwrites maxfun, npt or both (as the example does with maxfun)
SetOptions ==
    /\ pc = "inited"
    /\ \E setMaxfun \in BOOLEAN, setNpt \in BOOLEAN :
          /\ setMaxfun \/ setNpt
          /\ options' = [options EXCEPT
                            !.maxfun = IF setMaxfun THEN CallerMaxfun ELSE @,
                            !.npt = IF setNpt THEN CallerNpt ELSE @]
    /\ pc' = "set"
    /\ UNCHANGED <<algorithm, use_constr, problem, args, result, mem, heap, rc, chk, eng>>

\* the caller runs prima_check_problem(prob, opts, constr, alg)
CheckProblem ==
    /\ pc \in {"ready", "inited", "set"}
    /\ \E prob \in {NULL, ProblemPtr}, opts \in {NULL, OptionsPtr},
          constr \in BOOLEAN, alg \in AlgorithmArgs :
          LET r == prima_check_problem(prob, opts, constr, alg)
          IN  /\ options' = r.options
              /\ rc' = r.rc
              /\ args' = [NoArgs EXCEPT !.problem = prob, !.options = opts]
              /\ algorithm' = alg
              /\ use_constr' = constr
    /\ pc' = "checked"
    /\ UNCHANGED <<problem, result, mem, heap, chk, eng>>

InitValidate ==
    /\ pc = "ready"
    /\ algorithm = NotAnAlgorithm
    /\ use_constr = FALSE
    /\ \E n \in {1, MaxN} : problem \in AllProblems(n)
    /\ options \in {InitialOptions, [InitialOptions EXCEPT !.maxfun = CallerMaxfun]}
    /\ args = NoArgs
    /\ result \in {r \in UninitializedResults : r.x = WILD /\ r.nlconstr = WILD}
    /\ mem = NoMem
    /\ heap = EmptyHeap
    /\ rc = NoRc
    /\ chk = NoCheck
    /\ eng = NoEngine

NextValidate == CheckProblem

SpecValidate == InitValidate /\ [][NextValidate]_vars

InitDefaults ==
    /\ pc = "start"
    /\ algorithm = NotAnAlgorithm
    /\ use_constr = FALSE
    /\ \E n \in Dims : problem \in PlainProblems(n)
    /\ options = UninitializedOptions
    /\ args = NoArgs
    /\ result \in {r \in UninitializedResults : r.x = WILD /\ r.nlconstr = WILD}
    /\ mem = NoMem
    /\ heap = EmptyHeap
    /\ rc = NoRc
    /\ chk = NoCheck
    /\ eng = NoEngine

NextDefaults == InitOptions \/ SetOptions \/ CheckProblem

SpecDefaults == InitDefaults /\ [][NextDefaults]_vars

---------------------------------------------------------------------------
(* Whole runs: prima_minimize, prima_init_result, prima_free_result *)

\* where the calling program holds a result it may release
Idle == {"returned", "created", "released", "wrote"}

X0Contents(n) == [i \in 1..n |-> i]

\* the solver being run
Call == eng.todo[eng.cur]

\* the caller runs prima_minimize(alg, prob, opts, res); the call goes on until a
\* solver is entered or the function returns
Minimize ==
    /\ pc = "ready"
    /\ heap.n + 2 <= MaxAllocs
    /\ \E alg \in AlgorithmArgs, prob \in {NULL, ProblemPtr}, opts \in {NULL, OptionsPtr},
          res \in {NULL, ResultPtr}, mallocOk \in BOOLEAN, callocOk \in BOOLEAN :
          LET c == prima_check_problem(prob, opts, alg = "PRIMA_COBYLA", alg)
              i == IF c.rc = "0"
                   THEN prima_init_result(res, prob, mallocOk, callocOk)
                   ELSE [rc |-> c.rc, result |-> result, mem |-> mem, heap |-> heap]
              todo == Dispatch(alg, i.result, c.options)
          IN  /\ algorithm' = alg
              /\ use_constr' = (alg = "PRIMA_COBYLA")
              /\ args' = [problem |-> prob, options |-> opts, result |-> res]
              /\ options' = c.options
              /\ chk' = [check |-> c.rc, create |-> IF c.rc = "0" THEN i.rc ELSE NoRc]
              /\ result' = i.result
              /\ mem' = i.mem
              /\ heap' = i.heap
              /\ IF i.rc = "0" /\ todo # << >>
                 THEN /\ eng' = [NoEngine EXCEPT !.todo = todo, !.cur = 1, !.phase = "running"]
                      /\ rc' = NoRc
                      /\ pc' = "solving"
                 ELSE /\ eng' = NoEngine
                      /\ rc' = IF i.rc = "0" THEN "PRIMA_INVALID_INPUT" ELSE i.rc
                      /\ pc' = "returned"
    /\ UNCHANGED problem

\* the solver evaluates the objective (and constraints) at a new point, kept in x
SolverEvaluate ==
    /\ pc = "solving"
    /\ eng.phase = "running"
    /\ eng.nf < MaxEvals
    /\ eng.nf < Call.maxfun
    /\ Call.fn # NULL
    /\ mem' = [mem EXCEPT ![Call.x] = [j \in 1..Call.n |-> -(eng.nf + 1)]]
    /\ eng' = [eng EXCEPT !.nf = @ + 1, !.evals = @ + 1, !.phase = "reporting"]
    /\ UNCHANGED <<pc, algorithm, use_constr, problem, options, args, result, heap, rc, chk>>

\* the solver reports its progress; a monitor, when there is one, may ask it to stop
SolverReport ==
    /\ pc = "solving"
    /\ eng.phase = "reporting"
    /\ IF Call.callback # NULL
       THEN \E terminate \in BOOLEAN :
               eng' = [eng EXCEPT !.reports = @ + 1, !.terminate = terminate,
                                  !.phase = IF terminate THEN "terminating" ELSE "running"]
       ELSE eng' = [eng EXCEPT !.phase = "running"]
    /\ UNCHANGED <<pc, algorithm, use_constr, problem, options, args, result, mem, heap, rc, chk>>

\* the solver stores its outputs and returns; prima_minimize then runs to its end
SolverReturn ==
    /\ pc = "solving"
    /\ eng.phase \in {"running", "terminating"}
    /\ \E info \in IF eng.phase = "terminating" THEN {"PRIMA_CALLBACK_TERMINATE"}
                   ELSE SolverOutcomes :
          LET r1 == [result EXCEPT !.f = "f(x)", !.nf = eng.nf,
                                   !.cstrv = IF Call.cstrv THEN "cstrv(x)" ELSE @]
              m1 == IF Call.nlconstr # NULL
                    THEN [mem EXCEPT ![Call.nlconstr] = [j \in 1..Call.m_nlcon |-> eng.nf]]
                    ELSE mem
              out == MinimizeReturn(info, r1)
          IN  /\ mem' = m1
              /\ IF eng.cur < Len(eng.todo)
                 THEN /\ eng' = [eng EXCEPT !.cur = @ + 1, !.phase = "running", !.nf = 0,
                                            !.terminate = FALSE, !.stopped = @ + 1]
                      /\ result' = r1
                      /\ UNCHANGED <<pc, rc>>
                 ELSE /\ eng' = [eng EXCEPT !.phase = "stopped", !.stopped = @ + 1]
                      /\ result' = out.result
                      /\ rc' = out.rc
                      /\ pc' = "returned"
    /\ UNCHANGED <<algorithm, use_constr, problem, options, args, heap, chk>>

\* the caller runs prima_init_result(res, prob) itself
InitResult ==
    /\ pc = "ready"
    /\ heap.n + 2 <= MaxAllocs
    /\ \E prob \in {NULL, ProblemPtr}, res \in {NULL, ResultPtr},
          mallocOk \in BOOLEAN, callocOk \in BOOLEAN :
          LET i == prima_init_result(res, prob, mallocOk, callocOk)
          IN  /\ args' = [NoArgs EXCEPT !.problem = prob, !.result = res]
              /\ result' = i.result
              /\ mem' = i.mem
              /\ heap' = i.heap
              /\ rc' = i.rc
    /\ pc' = "created"
    /\ UNCHANGED <<algorithm, use_constr, problem, options, chk, eng>>

\* the caller runs prima_free_result(res)
FreeResult ==
    /\ pc \in Idle
    /\ \E res \in {NULL, ResultPtr} :
          LET f == prima_free_result(res)
          IN  /\ args' = [NoArgs EXCEPT !.result = res]
              /\ result' = f.result
              /\ mem' = f.mem
              /\ heap' = f.heap
              /\ rc' = f.rc
    /\ pc' = "released"
    /\ UNCHANGED <<algorithm, use_constr, problem, options, chk, eng>>

\* the caller overwrites its own x0 after a call
CallerWriteX0 ==
    /\ pc \in {"returned", "created"}
    /\ problem.x0 = X0Buf
    /\ mem' = [mem EXCEPT ![X0Buf] = [j \in 1..problem.n |-> 0]]
    /\ pc' = "wrote"
    /\ UNCHANGED <<algorithm, use_constr, problem, options, args, result, heap, rc, chk, eng>>

\* after prima_init_problem and prima_init_options the caller has filled in its
\* problem and options; its result is declared and not initialised (as in the example)
Init ==
    /\ pc = "ready"
    /\ algorithm = NotAnAlgorithm
    /\ use_constr = FALSE
    /\ \E n \in 1..MaxN : problem \in PlainProblems(n)
    /\ \E mf \in {0, CallerMaxfun}, np \in {0, CallerNpt}, cb \in {NULL, callback} :
          options = [InitialOptions EXCEPT !.maxfun = mf, !.npt = np, !.callback = cb,
                                           !.data = UserData]
    /\ args = NoArgs
    /\ result \in UninitializedResults
    /\ mem = [b \in Buffers |-> IF b = X0Buf THEN X0Contents(problem.n) ELSE << >>]
    /\ heap = EmptyHeap
    /\ rc = NoRc
    /\ chk = NoCheck
    /\ eng = NoEngine

Next ==
    \/ CheckProblem
    \/ Minimize
    \/ SolverEvaluate
    \/ SolverReport
    \/ SolverReturn
    \/ InitResult
    \/ FreeResult
    \/ CallerWriteX0

Spec == Init /\ [][Next]_vars

---------------------------------------------------------------------------
(* Validation: capabilities, order of the tests, defaults *)

\* the capability set of each algorithm
Capabilities(alg) ==
    CASE alg \in {"PRIMA_UOBYQA", "PRIMA_NEWUOA"} -> {}
      [] alg = "PRIMA_BOBYQA" -> {"bounds"}
      [] alg = "PRIMA_LINCOA" -> {"bounds", "linear"}
      [] alg = "PRIMA_COBYLA" -> {"bounds", "linear", "nonlinear"}
      [] OTHER -> {}

\* the features a problem supplies
Features(p) ==
    (IF p.xl # NULL \/ p.xu # NULL THEN {"bounds"} ELSE {})
    \cup (IF p.m_ineq > 0 \/ p.m_eq > 0 \/ p.Aineq # NULL \/ p.bineq # NULL
             \/ p.Aeq # NULL \/ p.beq # NULL THEN {"linear"} ELSE {})
    \cup (IF p.calcfc # NULL \/ p.nlconstr0 # NULL \/ p.m_nlcon > 0 THEN {"nonlinear"} ELSE {})

MismatchCode(feature) ==
    CASE feature = "bounds" -> "PRIMA_PROBLEM_SOLVER_MISMATCH_BOUNDS"
      [] feature = "linear" -> "PRIMA_PROBLEM_SOLVER_MISMATCH_LINEAR_CONSTRAINTS"
      [] feature = "nonlinear" -> "PRIMA_PROBLEM_SOLVER_MISMATCH_NONLINEAR_CONSTRAINTS"

\* the evaluator the constrained flag asks for is there
EvaluatorPresent(p, constr) == IF constr THEN p.calcfc # NULL ELSE p.calfun # NULL

\* a problem that is valid but for the features it supplies, checked with options
OtherwiseValid ==
    /\ pc = "checked"
    /\ algorithm \in Algorithms
    /\ args.problem # NULL
    /\ args.options # NULL
    /\ problem.x0 # NULL
    /\ EvaluatorPresent(problem, use_constr)

\* C1: on an otherwise valid problem with options, prima_check_problem returns 0
\* exactly when the supplied features are within the algorithm's capabilities, and
\* every rejection carries the mismatch code of a feature that is supplied and
\* not handled.
C1_AcceptsIffCapable ==
    OtherwiseValid =>
        /\ (rc = "0") <=> (Features(problem) \subseteq Capabilities(algorithm))
        /\ rc # "0" =>
              \E f \in Features(problem) \ Capabilities(algorithm) : rc = MismatchCode(f)

C1_Witness ==
    /\ OtherwiseValid
    /\ algorithm = "PRIMA_BOBYQA"
    /\ Features(problem) = {"bounds", "linear"}
    /\ rc = "PRIMA_PROBLEM_SOLVER_MISMATCH_LINEAR_CONSTRAINTS"

\* the tests of prima_check_problem on a non-null problem, in the order claimed:
\* whether each finds a violation, and the status it then gives
ClaimedTests(p, opts, constr, alg) ==
    << <<"nonlinear" \in Features(p) \ Capabilities(alg), MismatchCode("nonlinear")>>,
       <<"linear" \in Features(p) \ Capabilities(alg), MismatchCode("linear")>>,
       <<"bounds" \in Features(p) \ Capabilities(alg), MismatchCode("bounds")>>,
       <<opts = NULL, "PRIMA_NULL_OPTIONS">>,
       <<p.x0 = NULL, "PRIMA_NULL_X0">>,
       <<~EvaluatorPresent(p, constr), "PRIMA_NULL_FUNCTION">> >>

\* the status of the earliest test that finds a violation, "0" when none does
RECURSIVE FirstViolation(_)
FirstViolation(tests) ==
    IF tests = << >> THEN "0"
    ELSE IF Head(tests)[1] THEN Head(tests)[2]
    ELSE FirstViolation(Tail(tests))

ViolationCount(tests) == Cardinality({i \in 1..Len(tests) : tests[i][1]})

\* C2: on a non-null problem prima_check_problem returns the status of the
\* earliest violated test in the order nonlinear, linear, bounds, options, x0,
\* evaluator.
C2_FirstViolationWins ==
    (pc = "checked" /\ args.problem # NULL) =>
        rc = FirstViolation(ClaimedTests(problem, args.options, use_constr, algorithm))

C2_Witness ==
    /\ pc = "checked"
    /\ args.problem # NULL
    /\ algorithm = "PRIMA_NEWUOA"
    /\ ViolationCount(ClaimedTests(problem, args.options, use_constr, algorithm)) = 6
    /\ rc = "PRIMA_PROBLEM_SOLVER_MISMATCH_NONLINEAR_CONSTRAINTS"

\* v = k * n as integers, stated without forming a product that may not fit an int
IsProduct(v, k, n) == v >= 0 /\ v % k = 0 /\ v \div k = n

\* a call of prima_check_problem on a minimal valid problem of dimension >= 1
\* made after prima_init_options (directly, or after the caller set maxfun or npt)
ValidatesMinimal ==
    /\ pc \in {"inited", "set"}
    /\ pc' = "checked"
    /\ problem.n >= 1
    /\ algorithm' \in Algorithms
    /\ args'.problem # NULL
    /\ args'.options # NULL
    /\ problem.x0 # NULL
    /\ EvaluatorPresent(problem, use_constr')
    /\ Features(problem) \subseteq Capabilities(algorithm')

---------------------------------------------------------------------------
(* prima_minimize: which solver runs, and when none does *)

\* the solver that belongs to each algorithm
SolverOf(alg) ==
    CASE alg = "PRIMA_BOBYQA" -> "bobyqa_c"
      [] alg = "PRIMA_COBYLA" -> "cobyla_c"
      [] alg = "PRIMA_LINCOA" -> "lincoa_c"
      [] alg = "PRIMA_NEWUOA" -> "newuoa_c"
      [] alg = "PRIMA_UOBYQA" -> "uobyqa_c"

SetupErrors ==
    {"PRIMA_NULL_PROBLEM", "PRIMA_NULL_OPTIONS", "PRIMA_NULL_RESULT", "PRIMA_NULL_X0",
     "PRIMA_NULL_FUNCTION"}

MismatchErrors == {MismatchCode(f) : f \in {"bounds", "linear", "nonlinear"}}

\* prima_minimize has returned (and the result has not been released since)
Returned == pc = "returned"

\* C3: when validation and result creation return 0 for an algorithm of the
\* enumeration, the one solver entered is the algorithm's and it is entered once;
\* a call that returns a setup, mismatch or allocation error has entered no
\* solver, evaluated nothing and reported nothing; a solver is only ever entered
\* after validation returned 0.
C3_OneSolverAfterValidation ==
    /\ (Returned /\ chk.check = "0" /\ chk.create = "0" /\ algorithm \in Algorithms) =>
          /\ Len(eng.todo) = 1
          /\ eng.todo[1].name = SolverOf(algorithm)
          /\ eng.stopped = 1
    /\ (Returned /\ rc \in SetupErrors \cup MismatchErrors \cup {"PRIMA_MEMORY_ALLOCATION_FAILS"}) =>
          /\ eng.todo = << >>
          /\ eng.evals = 0
          /\ eng.reports = 0
    /\ pc = "solving" =>
          /\ chk.check = "0"
          /\ chk.create = "0"
          /\ eng.cur = 1
          /\ Call.name = SolverOf(algorithm)

C3_Witness ==
    /\ Returned
    /\ algorithm = "PRIMA_BOBYQA"
    /\ eng.todo # << >>
    /\ eng.todo[1].name = "bobyqa_c"
    /\ eng.stopped = 1
    /\ eng.evals = MaxEvals

\* C5: whenever prima_minimize has returned for a non-null result, result.x and
\* result.nlconstr are each null or a live block of the allocator.
C5_ResultReleasable ==
    (Returned /\ args.result # NULL) =>
        \A p \in {result.x, result.nlconstr} :
            p = NULL \/ (p.kind = "heap" /\ heap.state[p.id] = "live")

\* C9 as claimed: a call with an algorithm outside the enumeration returns
\* PRIMA_INVALID_INPUT and enters no solver, whatever the problem and options.
C9_AlwaysInvalidInput ==
    (Returned /\ algorithm \notin Algorithms) =>
        /\ rc = "PRIMA_INVALID_INPUT"
        /\ eng.todo = << >>

\* C9: a call with an algorithm outside the enumeration enters no solver and
\* fails; it returns PRIMA_INVALID_INPUT when validation and result creation
\* both return 0, and otherwise the status of the one that did not.
C9_InvalidInputAfterSetup ==
    /\ algorithm \notin Algorithms => pc # "solving"
    /\ (Returned /\ algorithm \notin Algorithms) =>
          /\ eng.todo = << >>
          /\ eng.evals = 0
          /\ rc # "0"
          /\ rc = IF chk.check # "0" THEN chk.check
                  ELSE IF chk.create # "0" THEN chk.create
                  ELSE "PRIMA_INVALID_INPUT"

C9_Witness ==
    /\ Returned
    /\ algorithm = NotAnAlgorithm
    /\ rc = "PRIMA_INVALID_INPUT"
    /\ chk = [check |-> "0", create |-> "0"]
    /\ eng.todo = << >>

---------------------------------------------------------------------------
(* Result creation and release *)

\* this step ran prima_init_result to a return of 0, on its own or in prima_minimize
CreatesResult ==
    /\ pc = "ready"
    /\ \/ pc' = "created" /\ rc' = "0"
       \/ pc' \in {"solving", "returned"} /\ chk'.create = "0"

\* block p is handed out by this step
Fresh(p) == p.kind = "heap" /\ heap.state[p.id] = "unused" /\ heap'.state[p.id] = "live"

\* C6: when prima_init_result returns 0, result.x is a fresh block of n elements
\* equal to x0 and is not x0; result.nlconstr is null exactly when m_nlcon = 0 and
\* is otherwise another fresh block of m_nlcon zeros; and afterwards no step
\* that writes x0 changes result.x, nor the other way round.
C6_FreshCopyOfX0 ==
    [][/\ CreatesResult =>
             /\ Fresh(result'.x)
             /\ result'.x # problem.x0
             /\ Len(mem'[result'.x]) = problem.n
             /\ \A i \in 1..problem.n : mem'[result'.x][i] = mem[problem.x0][i]
             /\ mem'[problem.x0] = mem[problem.x0]
             /\ (result'.nlconstr = NULL) <=> (problem.m_nlcon = 0)
             /\ problem.m_nlcon > 0 =>
                   /\ Fresh(result'.nlconstr)
                   /\ result'.nlconstr # result'.x
                   /\ mem'[result'.nlconstr] = Zeros(problem.m_nlcon)
       /\ (pc # "ready" /\ result.x.kind = "heap" /\ result'.x = result.x) =>
             \/ mem'[X0Buf] = mem[X0Buf]
             \/ mem'[result.x] = mem[result.x]]_vars

C6_Witness ==
    /\ pc = "solving"
    /\ algorithm = "PRIMA_COBYLA"
    /\ problem.n = MaxN
    /\ problem.m_nlcon = MaxM
    /\ eng.nf = MaxEvals
    /\ mem[X0Buf] = X0Contents(MaxN)
    /\ mem[result.x] # mem[X0Buf]
    /\ mem[result.nlconstr] = Zeros(MaxM)

\* the result has been through prima_init_result: its scalars are no longer the
\* indeterminate values it was declared with
ProducedByInitResult == result.f # "indeterminate" /\ result.message # "indeterminate"

\* this step is prima_free_result(&result) on such a result
ReleasesResult ==
    /\ pc \in Idle
    /\ pc' = "released"
    /\ args'.result # NULL
    /\ ProducedByInitResult

\* C7: the first prima_free_result on a result made by prima_init_result frees
\* each attached block once, leaves x and nlconstr null and _m_nlcon zero and
\* returns 0; a later one frees nothing and changes no field; no block is ever
\* freed twice.
C7_ReleaseIdempotent ==
    [][ReleasesResult =>
          /\ rc' = "0"
          /\ result'.x = NULL
          /\ result'.nlconstr = NULL
          /\ result'._m_nlcon = 0
          /\ \A k \in Blocks :
                heap'.state[k] = IF Heap(k) \in {result.x, result.nlconstr}
                                 THEN "freed" ELSE heap.state[k]
          /\ heap'.invalid = heap.invalid
          /\ (result.x = NULL /\ result.nlconstr = NULL) =>
                (result' = result /\ heap' = heap /\ mem' = mem)]_vars

C7_Witness ==
    /\ pc = "released"
    /\ args.result # NULL
    /\ rc = "0"
    /\ ProducedByInitResult
    /\ chk = NoCheck
    /\ result.x = NULL
    /\ result.nlconstr = NULL
    /\ heap.state[1] = "freed"
    /\ heap.state[2] = "freed"
    /\ ~heap.invalid

---------------------------------------------------------------------------
(* What the library leaves alone *)

\* this step is a call that ran prima_check_problem to a return of 0, on its own
\* or in prima_minimize
ValidatesNow ==
    /\ pc = "ready"
    /\ \/ pc' = "checked" /\ rc' = "0"
       \/ pc' \in {"solving", "returned"} /\ chk'.check = "0"

\* C8: no step of the library (prima_check_problem, prima_minimize with its
\* solver run, prima_init_result, prima_free_result) changes the problem or the
\* contents of x0; of the options only maxfun and npt ever change, each only
\* from 0 and only in a call whose validation returns 0 (so never in a failed
\* validation, never in prima_free_result).
C8_FrameOfProblemAndOptions ==
    [][pc' # "wrote" =>
          /\ problem' = problem
          /\ mem'[X0Buf] = mem[X0Buf]
          /\ options' = [options EXCEPT !.maxfun = options'.maxfun, !.npt = options'.npt]
          /\ options'.maxfun # options.maxfun => (options.maxfun = 0 /\ ValidatesNow)
          /\ options'.npt # options.npt => (options.npt = 0 /\ ValidatesNow)]_vars

C8_Witness ==
    /\ pc = "solving"
    /\ eng.nf = MaxEvals
    /\ problem.n = MaxN
    /\ mem[X0Buf] = X0Contents(MaxN)
    /\ options.maxfun = MAXFUN_DIM_DFT * MaxN
    /\ options.npt = CallerNpt

---------------------------------------------------------------------------
(* The monitor and the request to stop *)

Terminated == "PRIMA_CALLBACK_TERMINATE"

====
